---- MODULE Spec2Model ----
(***************************************************************************)
(* Model of TVMTypeChecker (libsolidity/codegen/TVMTypeChecker.cpp): the   *)
(* AST visitor that reports TVM-specific legality errors.                  *)
(*                                                                         *)
(* State: the AST being walked (prog), the error reporter's list (errors), *)
(* the member contractDefinition, the traversal's position among the       *)
(* contracts, and the values the locals of the last                        *)
(* checkOverrideAndOverload call ended with.  One action per visit /       *)
(* endVisit method.  The traversal enters the contracts once each, in      *)
(* source order; the other nodes stand for any number of nodes of their    *)
(* shape and are visited while the sink is shorter than MaxErrors.         *)
(***************************************************************************)
EXTENDS Integers, Sequences, FiniteSets, TLC

VARIABLES
    prog,                \* the AST: callables, contracts, linearizations
    errors,              \* m_errorReporter: the list of reported errors
    contractDefinition,  \* TVMTypeChecker::contractDefinition
    cursor,              \* the traversal's position: contracts entered so far
    funcId2Decl,         \* local of the last checkOverrideAndOverload call
    overridedFunctions,  \* local of the last checkOverrideAndOverload call
    functions,           \* local of the last checkOverrideAndOverload call
    op,                  \* the visit method that ran last
    node,                \* the node it was given
    lastLen,             \* Len(errors) when that method was entered
    ret                  \* what that method returned

vars == <<prog, errors, contractDefinition, cursor, funcId2Decl, overridedFunctions,
          functions, op, node, lastLen, ret>>

----------------------------------------------------------------------------
(* Bounds *)

NumFuncs == 3        \* callables declared in the program
NumContracts == 3    \* contracts in the program
MaxErrors == 2       \* visits are explored while the sink is shorter than this
MaxMembers == 4      \* members of a struct used as a mapping key

FuncIds == 1 .. NumFuncs
ContractIds == 1 .. NumContracts

nullptr == 0

----------------------------------------------------------------------------
(* Diagnostics and the error reporter *)

\* One reported error: message text, primary location (a callable's number,
\* or 0 for the node being visited, with the part of it that is meant) and
\* secondary location (0 when there is none).
Diag(msg, at, part, other) == [msg |-> msg, at |-> at, part |-> part, other |-> other]

typeError(errs, msg, at, part, other) == Append(errs, Diag(msg, at, part, other))

MsgSameID == "Two functions have the same functionID."
MsgIDPresence == "Both override and base functions should have functionID if it is defined for one of them."
MsgIDValue == "Override function should have functionID = "
MsgResponsible == "Both override and base functions should be marked as responsible or not"
MsgMsgFlags == "Both override and base functions should be marked as internalMsg or externalMsg."
MsgOverload == "Function overloading is not supported for public functions."

----------------------------------------------------------------------------
(* AST accessors *)

\* std::optional<uint32_t> is the set of its values: {} or {v}.
has_value(o) == o # {}
value(o) == CHOOSE v \in o : TRUE

isConstructor(fd) == fd.kind = "constructor"
isReceive(fd) == fd.kind = "receive"
isFallback(fd) == fd.kind = "fallback"
isOnTickTock(fd) == fd.kind = "onTickTock"
isOnBounce(fd) == fd.kind = "onBounce"
isPublic(fd) == fd.visibility \in {"public", "external"}

\* Iteration order of a std::set of pointers: ascending address.  A
\* callable's address is its number.
RECURSIVE SetToSeq(_)
SetToSeq(S) ==
    IF S = {} THEN <<>>
    ELSE LET m == CHOOSE x \in S : \A y \in S : x <= y
         IN  <<m>> \o SetToSeq(S \ {m})

RECURSIVE Reversed(_)
Reversed(s) == IF s = <<>> THEN <<>> ELSE Reversed(Tail(s)) \o <<Head(s)>>

RECURSIVE Concat(_)
Concat(ss) == IF ss = <<>> THEN <<>> ELSE Head(ss) \o Concat(Tail(ss))

\* cd->definedFunctions(): the callables declared in contract c, in
\* declaration order.
definedFunctions(p, c) ==
    LET mine == SetToSeq({f \in FuncIds : p.contractOf[f] = c})
    IN  IF p.declAscending THEN mine ELSE Reversed(mine)

\* All callables f overrides, directly or through intermediate overrides.
RECURSIVE getAllBaseFunctions(_, _)
getAllBaseFunctions(p, f) ==
    LET b == p.fn[f].baseFunctions
    IN  b \cup UNION {getAllBaseFunctions(p, g) : g \in b}

----------------------------------------------------------------------------
(* checkOverrideAndOverload *)

\* The order in which the two nested loops of the hierarchy walk reach the
\* callables: contracts most-base first, declaration order inside each.
WalkOrder(p, cd) ==
    LET lin == Reversed(p.linearizedBaseContracts[cd])
    IN  Concat([i \in 1 .. Len(lin) |-> definedFunctions(p, lin[i])])

\* Lines 50-66: the function-ID registry.
Register(st, id, f) == [st EXCEPT !.funcId2Decl = (id :> f) @@ @]

\* The collision test against the direct base functions only.
registerFunctionID_DirectBases(p, f, st) ==
    LET fd == p.fn[f] IN
    IF has_value(fd.functionID)
    THEN LET id == value(fd.functionID) IN
         IF id \in DOMAIN st.funcId2Decl
         THEN LET f2 == st.funcId2Decl[id] IN
              IF f2 \notin fd.baseFunctions /\ f \notin p.fn[f2].baseFunctions
              THEN [st EXCEPT !.errors = typeError(@, MsgSameID, f, "", f2)]
              ELSE st
         ELSE Register(st, id, f)
    ELSE st

registerFunctionID(p, f, st) ==
    LET fd == p.fn[f] IN
    IF has_value(fd.functionID)
    THEN LET id == value(fd.functionID) IN
         IF id \in DOMAIN st.funcId2Decl
         THEN LET f2 == st.funcId2Decl[id] IN
              IF f2 \notin getAllBaseFunctions(p, f) /\ f \notin getAllBaseFunctions(p, f2)
              THEN [st EXCEPT !.errors = typeError(@, MsgSameID, f, "", f2)]
              ELSE st
         ELSE Register(st, id, f)
    ELSE st

\* Lines 78-90: functionID presence, else functionID value.
checkIDFirst(fd, bd, f, base, errs) ==
    IF (~ has_value(fd.functionID) /\ has_value(bd.functionID))
       \/ (has_value(fd.functionID) /\ ~ has_value(bd.functionID))
    THEN typeError(errs, MsgIDPresence, f, "", base)
    ELSE IF has_value(fd.functionID) /\ fd.functionID # bd.functionID
    THEN typeError(errs, MsgIDValue \o ToString(value(bd.functionID)) \o ".", f, "", base)
    ELSE errs

\* The responsible test with == for !=.
checkResponsible_Inverted(fd, bd, f, base, errs) ==
    IF bd.responsible = fd.responsible
    THEN typeError(errs, MsgResponsible, f, "", base)
    ELSE errs

\* Lines 92-98.
checkResponsible(fd, bd, f, base, errs) ==
    IF bd.responsible # fd.responsible
    THEN typeError(errs, MsgResponsible, f, "", base)
    ELSE errs

\* Lines 100-107: functionID presence, a second time.
checkIDSecond(fd, bd, f, base, errs) ==
    IF (~ has_value(fd.functionID) /\ has_value(bd.functionID))
       \/ (has_value(fd.functionID) /\ ~ has_value(bd.functionID))
    THEN typeError(errs, MsgIDPresence, f, "", base)
    ELSE errs

\* The message-flag test without its externalMsg half.
MsgFlagsDiffer_InternalOnly(fd, bd) == fd.internalMsg # bd.internalMsg

\* Lines 109-116: one test over both message flags.
MsgFlagsDiffer(fd, bd) ==
    (fd.internalMsg # bd.internalMsg) \/ (fd.externalMsg # bd.externalMsg)

checkMsgFlags(fd, bd, f, base, errs) ==
    IF MsgFlagsDiffer(fd, bd)
    THEN typeError(errs, MsgMsgFlags, f, "", base)
    ELSE errs

\* Lines 75-117: the body of the loop over annotation.baseFunctions.
checkBase(p, f, base, st) ==
    LET fd == p.fn[f]
        bd == p.fn[base]
        e1 == checkIDFirst(fd, bd, f, base, st.errors)
        e2 == checkResponsible(fd, bd, f, base, e1)
        e3 == checkIDSecond(fd, bd, f, base, e2)
        e4 == checkMsgFlags(fd, bd, f, base, e3)
    IN  [st EXCEPT !.overridedFunctions = @ \cup {base}, !.errors = e4]

RECURSIVE checkBases(_, _, _, _)
checkBases(p, f, bases, st) ==
    IF bases = <<>> THEN st
    ELSE checkBases(p, f, Tail(bases), checkBase(p, f, Head(bases), st))

\* Lines 48-120: the body of the loop over cd->definedFunctions().
walkFunction(p, f, st) ==
    LET fd == p.fn[f]
        s1 == registerFunctionID(p, f, st)
    IN  IF isConstructor(fd) \/ isReceive(fd) \/ isFallback(fd) \/ isOnTickTock(fd)
        THEN s1
        ELSE LET s2 == IF fd.baseFunctions # {}
                       THEN checkBases(p, f, SetToSeq(fd.baseFunctions),
                                [s1 EXCEPT !.overridedFunctions = @ \cup {f}])
                       ELSE s1
             IN  [s2 EXCEPT !.functions = @ \cup {f}]

RECURSIVE walk(_, _, _)
walk(p, fs, st) ==
    IF fs = <<>> THEN st ELSE walk(p, Tail(fs), walkFunction(p, Head(fs), st))

\* Lines 132-150: the inner loop of the overload check, for one f.
RECURSIVE overloadInner(_, _, _, _)
overloadInner(p, f, ffs, st) ==
    IF ffs = <<>> THEN st
    ELSE LET ff == Head(ffs)
             next ==
                IF ~ isPublic(p.fn[ff]) THEN st
                ELSE IF ff \in st.overridedFunctions \/ f = ff THEN st
                ELSE IF p.fn[f].name = p.fn[ff].name /\ <<f, ff>> \notin st.used
                THEN [st EXCEPT !.errors = typeError(@, MsgOverload, f, "", ff),
                                !.used = @ \cup {<<f, ff>>, <<ff, f>>}]
                ELSE st
         IN  overloadInner(p, f, Tail(ffs), next)

\* Lines 125-151: the outer loop of the overload check.
RECURSIVE overloadOuter(_, _, _)
overloadOuter(p, fs, st) ==
    IF fs = <<>> THEN st
    ELSE LET f == Head(fs)
             next ==
                IF ~ isPublic(p.fn[f]) THEN st
                ELSE IF f \in st.overridedFunctions THEN st
                ELSE overloadInner(p, f, SetToSeq(st.functions), st)
         IN  overloadOuter(p, Tail(fs), next)

\* A registry and sets that outlive the call, as members would.
NewLocals_Stale(errs) ==
    [errors |-> errs, funcId2Decl |-> funcId2Decl, overridedFunctions |-> overridedFunctions,
     functions |-> functions, used |-> {}]

\* Lines 44-46 and 124: the locals, constructed empty by every call.
NewLocals(errs) ==
    [errors |-> errs, funcId2Decl |-> <<>>, overridedFunctions |-> {},
     functions |-> {}, used |-> {}]

\* Lines 43-152.
checkOverrideAndOverload(p, cd, errs) ==
    LET st1 == walk(p, WalkOrder(p, cd), NewLocals(errs))
    IN  overloadOuter(p, SetToSeq(st1.functions), st1)

----------------------------------------------------------------------------
(* The visit methods, as functions from a node and the sink to the new sink
   and the returned flag *)

isNotSupportedVM == " is not supported by the VM version. See \"--tvm-version\" command-line option."

\* Lines 154-162.
UpgradeFormat == "\nfunction onCodeUpgrade(...) (internal|private) { /*...*/ }"
MsgNoReturn == "Function mustn't return any parameters. Expected function signature:" \o UpgradeFormat
MsgBadVisibility == "Bad function visibility. Expected function signature:" \o UpgradeFormat

\* The visibility test as an else branch of the return test.
check_onCodeUpgrade_ElseIf(fd, f, errs) ==
    IF fd.returnParameters # <<>>
    THEN typeError(errs, MsgNoReturn, f, "returnParameters[0]", 0)
    ELSE IF isPublic(fd)
    THEN typeError(errs, MsgBadVisibility, f, "", 0)
    ELSE errs

check_onCodeUpgrade(fd, f, errs) ==
    LET e1 == IF fd.returnParameters # <<>>
              THEN typeError(errs, MsgNoReturn, f, "returnParameters[0]", 0)
              ELSE errs
    IN  IF isPublic(fd)
        THEN typeError(e1, MsgBadVisibility, f, "", 0)
        ELSE e1

\* Lines 164-169.
MsgStateSlice == "This type can't be used for state variables."

\* A visit that stops the traversal below a node it reported.
visitVariableDeclaration_Prune(n, errs) ==
    IF n.isStateVariable /\ n.category = "TvmSlice"
    THEN [errors |-> typeError(errs, MsgStateSlice, 0, "", 0), ret |-> FALSE]
    ELSE [errors |-> errs, ret |-> TRUE]

visitVariableDeclaration(n, errs) ==
    [errors |-> IF n.isStateVariable /\ n.category = "TvmSlice"
                THEN typeError(errs, MsgStateSlice, 0, "", 0)
                ELSE errs,
     ret |-> TRUE]

\* TvmConst::CellBitLength.
CellBitLength == 1023

\* The number of bits that distinguish n enum members.
bitsForEnum(n) == CHOOSE k \in 1 .. 32 : 2 ^ k >= n /\ (k = 1 \/ 2 ^ (k - 1) < n)

\* TypeInfo: whether a type is numeric-like, and its width in bits.
isNumeric(t) == t.category \in {"Integer", "Bool", "FixedBytes", "Enum"}

numBits(t) ==
    CASE t.category = "Integer" -> t.n
      [] t.category = "Bool" -> 1
      [] t.category = "FixedBytes" -> 8 * t.n
      [] t.category = "Enum" -> bitsForEnum(t.n)
      [] OTHER -> 0

MsgBadField == "If struct type is used as a key type for mapping, then fields of the struct must have integer, boolean, fixed bytes or enum type"
MsgFit == "If struct type is used as a key type for mapping, then struct must fit in " \o ToString(CellBitLength) \o " bits"

\* Lines 177-189: the loop over the struct's members, from member i on.
RECURSIVE membersFrom(_, _, _)
membersFrom(members, i, acc) ==
    IF i > Len(members) THEN acc
    ELSE LET e == IF ~ isNumeric(members[i])
                  THEN typeError(acc.errors, MsgBadField, 0, "keyType", i)
                  ELSE acc.errors
         IN  membersFrom(members, i + 1,
                [errors |-> e, bitLength |-> acc.bitLength + numBits(members[i])])

\* The width test with >= for >.
TooWide_Inclusive(bitLength) == bitLength >= CellBitLength

\* Line 190.
TooWide(bitLength) == bitLength > CellBitLength

\* Lines 171-197.
visitMapping(m, errs) ==
    IF m.keyIsUserDefinedTypeName /\ m.keyCategory = "Struct"
    THEN LET r == membersFrom(m.members, 1, [errors |-> errs, bitLength |-> 0])
         IN  [errors |-> IF TooWide(r.bitLength)
                         THEN typeError(r.errors, MsgFit, 0, "keyType", 0)
                         ELSE r.errors,
              ret |-> TRUE]
    ELSE [errors |-> errs, ret |-> TRUE]

\* Lines 199-240.
MsgIDZero == "functionID can't be equal to zero because this value is reserved for receive function."
\* (the source quotes onCodeUpgrade with backquotes)
MsgIDPlacement == "Only public/external functions and function 'onCodeUpgrade' can have functionID."
MsgIDRole == "functionID isn't supported for receive, fallback, onBounce and onTickTock functions."
MsgInlinePublic == "Inline function should have private or internal visibility"
AfterSigFormat == "\nExpected follow format: \"function afterSignatureCheck(TvmSlice restOfMessageBody, TvmCell message) private inline returns (TvmSlice) { /*...*/ }\""
MsgSigParams == "Unexpected function parameters." \o AfterSigFormat
MsgSigReturn == "Should return TvmSlice." \o AfterSigFormat
MsgSigPrivate == "Should be marked as private." \o AfterSigFormat
MsgSigInline == "Should be marked as inline." \o AfterSigFormat

\* The visibility test rejecting public hooks only.
checkAfterSignatureCheck_PublicOnly(fd, f, errs) ==
    LET e1 == IF Len(fd.parameters) # 2
                 \/ fd.parameters[1] # "TvmSlice"
                 \/ fd.parameters[2] # "TvmCell"
              THEN typeError(errs, MsgSigParams, f, "", 0) ELSE errs
        e2 == IF Len(fd.returnParameters) # 1 \/ fd.returnParameters[1] # "TvmSlice"
              THEN typeError(e1, MsgSigReturn, f, "", 0) ELSE e1
        e3 == IF isPublic(fd)
              THEN typeError(e2, MsgSigPrivate, f, "", 0) ELSE e2
    IN  IF ~ fd.inline THEN typeError(e3, MsgSigInline, f, "", 0) ELSE e3

\* Lines 217-237.
checkAfterSignatureCheck(fd, f, errs) ==
    LET e1 == IF Len(fd.parameters) # 2
                 \/ fd.parameters[1] # "TvmSlice"
                 \/ fd.parameters[2] # "TvmCell"
              THEN typeError(errs, MsgSigParams, f, "", 0) ELSE errs
        e2 == IF Len(fd.returnParameters) # 1 \/ fd.returnParameters[1] # "TvmSlice"
              THEN typeError(e1, MsgSigReturn, f, "", 0) ELSE e1
        e3 == IF fd.visibility # "private"
              THEN typeError(e2, MsgSigPrivate, f, "", 0) ELSE e2
    IN  IF ~ fd.inline THEN typeError(e3, MsgSigInline, f, "", 0) ELSE e3

visitFunctionDefinition(fd, f, errs) ==
    LET e1 == IF has_value(fd.functionID) /\ value(fd.functionID) = 0
              THEN typeError(errs, MsgIDZero, f, "", 0) ELSE errs
        e2 == IF has_value(fd.functionID) /\ (~ isPublic(fd) /\ fd.name # "onCodeUpgrade")
              THEN typeError(e1, MsgIDPlacement, f, "", 0) ELSE e1
        e3 == IF has_value(fd.functionID)
                 /\ (isReceive(fd) \/ isFallback(fd) \/ isOnTickTock(fd) \/ isOnBounce(fd))
              THEN typeError(e2, MsgIDRole, f, "", 0) ELSE e2
        e4 == IF fd.inline /\ isPublic(fd)
              THEN typeError(e3, MsgInlinePublic, f, "", 0) ELSE e3
        e5 == IF fd.name = "onCodeUpgrade" THEN check_onCodeUpgrade(fd, f, e4) ELSE e4
        e6 == IF fd.name = "afterSignatureCheck"
              THEN checkAfterSignatureCheck(fd, f, e5) ELSE e5
    IN  [errors |-> e6, ret |-> TRUE]

\* Lines 242-249.
MsgIndexRange == "Index range access is available only for bytes."

visitIndexRangeAccess(n, errs) ==
    [errors |-> IF n.baseCategory # "Array" \/ ~ n.isByteArrayOrString
                THEN typeError(errs, MsgIndexRange, 0, "", 0)
                ELSE errs,
     ret |-> TRUE]

\* Lines 251-285.
visitFunctionCall(n, ver, errs) ==
    LET e1 == IF n.exprCategory = "Function" /\ n.kind = "TVMInitCodeHash" /\ ver = "ton"
              THEN typeError(errs, "\"tvm.initCodeHash()\"" \o isNotSupportedVM, 0, "", 0)
              ELSE IF n.exprCategory = "Function" /\ n.kind = "TVMCode" /\ ver = "ton"
              THEN typeError(errs, "\"tvm.code()\"" \o isNotSupportedVM, 0, "", 0)
              ELSE errs
    IN  [errors |-> IF n.isAwait /\ ver = "ton"
                    THEN typeError(e1, "\"*.await\"" \o isNotSupportedVM, 0, "", 0)
                    ELSE e1,
         ret |-> TRUE]

\* Lines 287-295.
visitPragmaDirective(n, ver, errs) ==
    [errors |-> IF n.literals # <<>> /\ n.literals[1] = "copyleft" /\ ver = "ton"
                THEN typeError(errs, "\"pragma copyleft ...\"" \o isNotSupportedVM, 0, "", 0)
                ELSE errs,
     ret |-> TRUE]

\* Lines 297-320.
visitMemberAccess(n, ver, errs) ==
    IF n.exprCategory = "Magic"
    THEN LET e1 == IF n.memberName = "storageFee" /\ ver = "ton"
                   THEN typeError(errs, "\"tx.storageFee\"" \o isNotSupportedVM, 0, "", 0)
                   ELSE errs
         IN  [errors |-> IF n.isIdentifier /\ n.identName = "gosh" /\ ver # "gosh"
                         THEN typeError(e1, "\"gosh." \o n.memberName \o "\"" \o isNotSupportedVM,
                                        0, "", 0)
                         ELSE e1,
              ret |-> TRUE]
    ELSE [errors |-> errs, ret |-> TRUE]

----------------------------------------------------------------------------
(* Actions: one per visit / endVisit method *)

\* What a visit of node n that produced r leaves behind, the contract
\* bookkeeping aside.
Visit(name, n, r) ==
    /\ errors' = r.errors
    /\ ret' = r.ret
    /\ op' = name
    /\ node' = n
    /\ lastLen' = Len(errors)

VisitVariableDeclaration ==
    /\ Len(errors) < MaxErrors
    /\ \E n \in prog.nodes.variables :
         Visit("visitVariableDeclaration", n, visitVariableDeclaration(n, errors))
    /\ UNCHANGED <<prog, contractDefinition, cursor, funcId2Decl, overridedFunctions, functions>>

VisitMapping ==
    /\ Len(errors) < MaxErrors
    /\ \E n \in prog.nodes.mappings :
         Visit("visitMapping", n, visitMapping(n, errors))
    /\ UNCHANGED <<prog, contractDefinition, cursor, funcId2Decl, overridedFunctions, functions>>

VisitFunctionDefinition ==
    /\ Len(errors) < MaxErrors
    /\ \E f \in FuncIds :
         Visit("visitFunctionDefinition", f, visitFunctionDefinition(prog.fn[f], f, errors))
    /\ UNCHANGED <<prog, contractDefinition, cursor, funcId2Decl, overridedFunctions, functions>>

VisitIndexRangeAccess ==
    /\ Len(errors) < MaxErrors
    /\ \E n \in prog.nodes.indexRanges :
         Visit("visitIndexRangeAccess", n, visitIndexRangeAccess(n, errors))
    /\ UNCHANGED <<prog, contractDefinition, cursor, funcId2Decl, overridedFunctions, functions>>

VisitFunctionCall ==
    /\ Len(errors) < MaxErrors
    /\ \E n \in prog.nodes.calls :
         Visit("visitFunctionCall", n, visitFunctionCall(n, prog.tvmVersion, errors))
    /\ UNCHANGED <<prog, contractDefinition, cursor, funcId2Decl, overridedFunctions, functions>>

VisitPragmaDirective ==
    /\ Len(errors) < MaxErrors
    /\ \E n \in prog.nodes.pragmas :
         Visit("visitPragmaDirective", n, visitPragmaDirective(n, prog.tvmVersion, errors))
    /\ UNCHANGED <<prog, contractDefinition, cursor, funcId2Decl, overridedFunctions, functions>>

VisitMemberAccess ==
    /\ Len(errors) < MaxErrors
    /\ \E n \in prog.nodes.members :
         Visit("visitMemberAccess", n, visitMemberAccess(n, prog.tvmVersion, errors))
    /\ UNCHANGED <<prog, contractDefinition, cursor, funcId2Decl, overridedFunctions, functions>>

\* Lines 322-328.
visitContractDefinition(cd, errs) ==
    LET r == checkOverrideAndOverload(prog, cd, errs)
    IN  [errors |-> r.errors, ret |-> TRUE, locals |-> r]

VisitContractDefinition ==
    /\ contractDefinition = nullptr
    /\ cursor < NumContracts
    /\ LET cd == cursor + 1
           r == visitContractDefinition(cd, errors)
       IN  /\ Visit("visitContractDefinition", cd, r)
           /\ contractDefinition' = cd
           /\ cursor' = cd
           /\ funcId2Decl' = r.locals.funcId2Decl
           /\ overridedFunctions' = r.locals.overridedFunctions
           /\ functions' = r.locals.functions
    /\ UNCHANGED prog

\* Lines 330-332.
endVisitContractDefinition(cd) == nullptr

EndVisitContractDefinition ==
    /\ contractDefinition # nullptr
    /\ contractDefinition' = endVisitContractDefinition(contractDefinition)
    /\ op' = "endVisitContractDefinition"
    /\ node' = contractDefinition
    /\ lastLen' = Len(errors)
    /\ UNCHANGED <<prog, errors, cursor, funcId2Decl, overridedFunctions, functions, ret>>

----------------------------------------------------------------------------
(* Programs *)

Plain(name, vis) ==
    [name |-> name, kind |-> "function", visibility |-> vis, functionID |-> {},
     responsible |-> FALSE, internalMsg |-> FALSE, externalMsg |-> FALSE,
     inline |-> FALSE, parameters |-> <<>>, returnParameters |-> <<>>,
     baseFunctions |-> {}]

\* Base contracts listed after the contract itself, most derived first.
RECURSIVE Descending(_)
Descending(S) ==
    IF S = {} THEN <<>>
    ELSE LET m == CHOOSE x \in S : \A y \in S : x >= y
         IN  <<m>> \o Descending(S \ {m})

\* A single-inheritance chain: contract c derives from c-1, ..., 1.
ChainLinearization == [c \in ContractIds |-> <<c>> \o Descending(1 .. (c - 1))]

\* Every contract but the first derives from the first one only.
ForkLinearization == [c \in ContractIds |-> <<c>> \o Descending({1} \ {c})]

\* No contract derives from another.
RootsLinearization == [c \in ContractIds |-> <<c>>]

StrictBases(lin, c) == {lin[c][i] : i \in 2 .. Len(lin[c])}

\* What the upstream passes guarantee of annotation.baseFunctions: a base
\* function is declared in a strict base contract of the overrider's
\* contract, has its name and kind, and is not a constructor.
BaseCandidates(attr, contractOf, lin, f) ==
    {b \in FuncIds :
        /\ contractOf[b] \in StrictBases(lin, contractOf[f])
        /\ attr[b].name = attr[f].name
        /\ attr[b].kind = attr[f].kind
        /\ attr[b].kind # "constructor"}

\* All assignments of a set of base functions to each callable of D.
RECURSIVE BaseChoices(_, _, _, _)
BaseChoices(D, attr, contractOf, lin) ==
    IF D = {} THEN {<<>>}
    ELSE LET f == CHOOSE x \in D : \A y \in D : x >= y
         IN  {Append(g, s) : g \in BaseChoices(D \ {f}, attr, contractOf, lin),
                             s \in SUBSET BaseCandidates(attr, contractOf, lin, f)}

NoBases == [f \in FuncIds |-> {}]

Program(attr, bases, contractOf, lin, asc, rest) ==
    [fn |-> [f \in FuncIds |-> [attr[f] EXCEPT !.baseFunctions = bases[f]]],
     contractOf |-> contractOf,
     linearizedBaseContracts |-> lin,
     declAscending |-> asc,
     tvmVersion |-> rest.tvmVersion,
     nodes |-> rest.nodes]

InitWith(AttrMaps, Places, Lins, Orders, overrides, Rests) ==
    /\ \E attr \in AttrMaps, contractOf \in Places, lin \in Lins, asc \in Orders,
          rest \in Rests :
         \E bases \in (IF overrides THEN BaseChoices(FuncIds, attr, contractOf, lin)
                       ELSE {NoBases}) :
            prog = Program(attr, bases, contractOf, lin, asc, rest)
    /\ errors = <<>>
    /\ contractDefinition = nullptr
    /\ cursor = 0
    /\ funcId2Decl = <<>>
    /\ overridedFunctions = {}
    /\ functions = {}
    /\ op = "init"
    /\ node = 0
    /\ lastLen = 0
    /\ ret = TRUE

\* Any placement of the callables in the contracts.
AnyPlace == [FuncIds -> ContractIds]

\* Placements in which the callables' addresses follow the walk order.
OrderedPlace == {c \in AnyPlace : \A f, g \in FuncIds : f < g => c[f] <= c[g]}

\* Two callables per contract, the last contract taking the rest.
PairedPlace ==
    [f \in FuncIds |-> IF (f + 1) \div 2 <= NumContracts THEN (f + 1) \div 2
                       ELSE NumContracts]

\* One callable per contract, the last contract taking the rest.
SpreadPlace == [f \in FuncIds |-> IF f <= NumContracts THEN f ELSE NumContracts]

NoNodes ==
    [tvmVersion |-> "ever",
     nodes |-> [variables |-> {}, mappings |-> {}, indexRanges |-> {}, calls |-> {},
                pragmas |-> {}, members |-> {}]]

NextContract == VisitContractDefinition \/ EndVisitContractDefinition

\* Overload programs: names, visibilities, placement, declaration order and
\* override edges vary.
OverloadFns ==
    {Plain(n, v) : n \in {"f", "g"}, v \in {"public", "internal"}}
    \cup {[Plain("", "public") EXCEPT !.kind = "constructor"]}

InitOverload ==
    InitWith([FuncIds -> OverloadFns], AnyPlace, {ChainLinearization}, BOOLEAN, TRUE, {NoNodes})

SpecOverload == InitOverload /\ [][NextContract]_vars

\* Override programs: every callable is a public function f; function IDs,
\* the responsible flag and the two message flags vary around
\* (functionID = 10, no flag set), one attribute at a time.
OverrideBase == [Plain("f", "public") EXCEPT !.functionID = {10}]

OverrideFns ==
    {OverrideBase,
     [OverrideBase EXCEPT !.functionID = {}],
     [OverrideBase EXCEPT !.functionID = {11}],
     [OverrideBase EXCEPT !.responsible = TRUE],
     [OverrideBase EXCEPT !.internalMsg = TRUE],
     [OverrideBase EXCEPT !.externalMsg = TRUE]}

InitOverride ==
    InitWith([FuncIds -> OverrideFns], {SpreadPlace}, {ChainLinearization}, {TRUE}, TRUE, {NoNodes})

SpecOverride == InitOverride /\ [][NextContract]_vars

\* Registry programs: function IDs and roles vary.
Special(kind, name) ==
    [Plain(name, "public") EXCEPT !.kind = kind, !.functionID = {10}]

RegistryFns ==
    {Plain("f", "public"),
     [Plain("f", "public") EXCEPT !.functionID = {10}],
     [Plain("f", "public") EXCEPT !.functionID = {11}],
     Special("constructor", ""), Special("receive", ""),
     Special("fallback", ""), Special("onTickTock", "onTickTock")}

InitRegistry ==
    InitWith([FuncIds -> RegistryFns], {SpreadPlace, PairedPlace}, {ChainLinearization}, {TRUE}, TRUE, {NoNodes})

SpecRegistry == InitRegistry /\ [][NextContract]_vars

\* Contract programs: unrelated and related contracts whose callables
\* share a function ID.
ContractFns ==
    {Plain("f", "internal"),
     [Plain("f", "public") EXCEPT !.functionID = {10}],
     [Plain("g", "public") EXCEPT !.functionID = {10}]}

InitContracts ==
    InitWith([FuncIds -> ContractFns], OrderedPlace,
             {ChainLinearization, ForkLinearization, RootsLinearization},
             {TRUE}, TRUE, {NoNodes})

SpecContracts == InitContracts /\ [][NextContract]_vars

\* Function programs: the first callable takes every shape, the others are
\* plain internal functions.
Shapes == {<<>>, <<"TvmSlice">>, <<"TvmSlice", "TvmCell">>, <<"TvmCell", "TvmSlice">>}

FunctionNodes ==
    {[Plain(n, v) EXCEPT !.inline = i, !.parameters = ps, !.returnParameters = rs,
                         !.functionID = id] :
        n \in {"f", "onCodeUpgrade", "afterSignatureCheck"},
        v \in {"private", "internal", "public", "external"},
        i \in BOOLEAN, ps \in Shapes, rs \in Shapes, id \in {{}, {0}, {10}}}
    \cup
    {[Plain(IF k = "onTickTock" \/ k = "onBounce" THEN k ELSE "", v)
        EXCEPT !.kind = k, !.functionID = id] :
        k \in {"constructor", "receive", "fallback", "onTickTock", "onBounce"},
        v \in {"public", "external"}, id \in {{}, {0}, {10}}}

InitFunction ==
    InitWith({[f \in FuncIds |-> IF f = 1 THEN x ELSE Plain("g", "internal")] :
                 x \in FunctionNodes},
             {SpreadPlace}, {ChainLinearization}, {TRUE}, FALSE, {NoNodes})

SpecFunction == InitFunction /\ [][VisitFunctionDefinition]_vars

\* Mapping programs: one mapping, its key a struct of up to MaxMembers
\* members, or not a struct at all.
MemberTypes ==
    {[category |-> "Integer", n |-> 512], [category |-> "Integer", n |-> 256],
     [category |-> "Integer", n |-> 248], [category |-> "Bool", n |-> 0],
     [category |-> "FixedBytes", n |-> 32], [category |-> "Enum", n |-> 128],
     [category |-> "Address", n |-> 0]}

StructKeys ==
    {[keyIsUserDefinedTypeName |-> TRUE, keyCategory |-> "Struct", members |-> ms] :
        ms \in UNION {[1 .. k -> MemberTypes] : k \in 0 .. MaxMembers}}

OtherKeys ==
    {[keyIsUserDefinedTypeName |-> TRUE, keyCategory |-> "Enum", members |-> <<>>],
     [keyIsUserDefinedTypeName |-> FALSE, keyCategory |-> "Integer", members |-> <<>>]}

InitMapping ==
    InitWith({[f \in FuncIds |-> Plain("g", "internal")]},
             {SpreadPlace}, {ChainLinearization}, {TRUE}, FALSE,
             {[NoNodes EXCEPT !.nodes.mappings = {m}] : m \in StructKeys \cup OtherKeys})

SpecMapping == InitMapping /\ [][VisitMapping]_vars

\* Whole-pass programs: every kind of node, each in a form that is reported
\* and a form that is not, under the three VM versions.
PassNodes ==
    [variables |-> {[isStateVariable |-> TRUE, category |-> "TvmSlice"],
                    [isStateVariable |-> FALSE, category |-> "TvmSlice"]},
     mappings |-> {[keyIsUserDefinedTypeName |-> TRUE, keyCategory |-> "Struct",
                    members |-> <<[category |-> "Address", n |-> 0]>>],
                   [keyIsUserDefinedTypeName |-> FALSE, keyCategory |-> "Integer",
                    members |-> <<>>]},
     indexRanges |-> {[baseCategory |-> "Array", isByteArrayOrString |-> TRUE],
                      [baseCategory |-> "Array", isByteArrayOrString |-> FALSE]},
     calls |-> {[exprCategory |-> "Function", kind |-> "TVMCode", isAwait |-> FALSE],
                [exprCategory |-> "Function", kind |-> "TVMInitCodeHash", isAwait |-> FALSE],
                [exprCategory |-> "Function", kind |-> "External", isAwait |-> TRUE]},
     pragmas |-> {[literals |-> <<"copyleft">>], [literals |-> <<>>]},
     members |-> {[exprCategory |-> "Magic", memberName |-> "storageFee",
                   isIdentifier |-> TRUE, identName |-> "tx"],
                  [exprCategory |-> "Magic", memberName |-> "cnvrtshellq",
                   isIdentifier |-> TRUE, identName |-> "gosh"],
                  [exprCategory |-> "Struct", memberName |-> "storageFee",
                   isIdentifier |-> TRUE, identName |-> "tx"]}]

InitPass ==
    InitWith({[f \in FuncIds |-> IF f = 1 THEN [Plain("f", "public") EXCEPT !.inline = TRUE]
                                 ELSE Plain("f", "public")]},
             {SpreadPlace}, {ChainLinearization}, {TRUE}, FALSE,
             {[tvmVersion |-> v, nodes |-> PassNodes] : v \in {"ton", "ever", "gosh"}})

Next ==
    \/ VisitVariableDeclaration
    \/ VisitMapping
    \/ VisitFunctionDefinition
    \/ VisitIndexRangeAccess
    \/ VisitFunctionCall
    \/ VisitPragmaDirective
    \/ VisitMemberAccess
    \/ VisitContractDefinition
    \/ EndVisitContractDefinition

Spec == InitPass /\ [][Next]_vars

----------------------------------------------------------------------------
(* Properties of checkOverrideAndOverload *)

Visited == op = "visitContractDefinition"

\* Positions in the sink of the errors the last visit reported.
NewIdx == (lastLen + 1) .. Len(errors)

\* The callables the hierarchy walk of the visited contract reaches.
Walked ==
    {f \in FuncIds : \E i \in DOMAIN prog.linearizedBaseContracts[node] :
        prog.contractOf[f] = prog.linearizedBaseContracts[node][i]}

NoRole(f) == prog.fn[f].kind = "function"

Related(f, g) ==
    f \in getAllBaseFunctions(prog, g) \/ g \in getAllBaseFunctions(prog, f)

\* How many errors with message m the last visit reported for the ordered
\* pair (f primary, g secondary).
NumAt(m, f, g) ==
    Cardinality({i \in NewIdx :
        errors[i].msg = m /\ errors[i].at = f /\ errors[i].other = g})

\* The pairs the override-consistency step examines.
Examined(f, b) == f \in Walked /\ NoRole(f) /\ b \in prog.fn[f].baseFunctions

\* C1: every unordered pair of distinct named public callables of the
\* hierarchy with the same name and no override relationship between them
\* gets exactly one overloading error, whatever else the two override.
C1_OnePerUnrelatedPair ==
    Visited =>
        \A f, g \in Walked :
            (/\ f < g
             /\ isPublic(prog.fn[f]) /\ isPublic(prog.fn[g])
             /\ prog.fn[f].name # "" /\ prog.fn[f].name = prog.fn[g].name
             /\ ~ Related(f, g))
            => NumAt(MsgOverload, f, g) + NumAt(MsgOverload, g, f) = 1

\* C2: an examined pair whose function IDs disagree gets exactly one error
\* about the ID: the presence error when one side has no ID, the value
\* error naming the base's ID when both have one.
C2_OneIDErrorPerPair ==
    Visited =>
        \A f, b \in FuncIds :
            (Examined(f, b) /\ prog.fn[f].functionID # prog.fn[b].functionID)
            => LET fid == prog.fn[f].functionID
                   bid == prog.fn[b].functionID
               IN  IF has_value(fid) /\ has_value(bid)
                   THEN /\ NumAt(MsgIDValue \o ToString(value(bid)) \o ".", f, b) = 1
                        /\ NumAt(MsgIDValue \o ToString(value(fid)) \o ".", f, b) = 0
                        /\ NumAt(MsgIDPresence, f, b) = 0
                   ELSE /\ NumAt(MsgIDPresence, f, b) = 1
                        /\ NumAt(MsgIDValue \o ToString(value(fid \cup bid)) \o ".", f, b) = 0

\* How many of the two message flags differ between two callables.
FlagsDiffering(fd, bd) ==
    (IF fd.internalMsg # bd.internalMsg THEN 1 ELSE 0)
    + (IF fd.externalMsg # bd.externalMsg THEN 1 ELSE 0)

\* C3 as stated: an examined pair gets as many message-flag errors as it
\* has differing message flags.
C3_OneErrorPerFlag ==
    Visited =>
        \A f, b \in FuncIds :
            Examined(f, b)
            => NumAt(MsgMsgFlags, f, b) = FlagsDiffering(prog.fn[f], prog.fn[b])

\* C3 amended: an examined pair gets one message-flag error when at least
\* one of its two message flags differs, and none when both agree.
C3_OneErrorPerPair ==
    Visited =>
        \A f, b \in FuncIds :
            Examined(f, b)
            => NumAt(MsgMsgFlags, f, b)
                 = (IF FlagsDiffering(prog.fn[f], prog.fn[b]) > 0 THEN 1 ELSE 0)

C3_Witness ==
    /\ Visited
    /\ \E f, b \in FuncIds :
         /\ Examined(f, b)
         /\ FlagsDiffering(prog.fn[f], prog.fn[b]) = 2
         /\ NumAt(MsgMsgFlags, f, b) = 1

\* The first callable of the walk that declares function ID id.
FirstWithID(w, id) ==
    w[CHOOSE i \in DOMAIN w :
        /\ prog.fn[w[i]].functionID = {id}
        /\ \A j \in 1 .. (i - 1) : prog.fn[w[j]].functionID # {id}]

\* C4: after the walk every declared function ID is bound to the first
\* (most-base) callable of the walk that declares it, whatever its role, and
\* a same-ID error is reported at f against that callable f2 exactly when f
\* is a later declarer of the ID and neither overrides the other
\* transitively; no other same-ID error is reported.
C4_RegistryKeepsFirst ==
    Visited =>
        LET w == WalkOrder(prog, node)
            ids == UNION {prog.fn[f].functionID : f \in Walked}
        IN  /\ DOMAIN funcId2Decl = ids
            /\ \A id \in ids : funcId2Decl[id] = FirstWithID(w, id)
            /\ \A f \in Walked : \A id \in prog.fn[f].functionID :
                 LET f2 == FirstWithID(w, id) IN
                 NumAt(MsgSameID, f, f2) = (IF f # f2 /\ ~ Related(f, f2) THEN 1 ELSE 0)
            /\ \A i \in NewIdx :
                 errors[i].msg = MsgSameID
                 => /\ errors[i].at \in Walked
                    /\ has_value(prog.fn[errors[i].at].functionID)
                    /\ errors[i].other
                         = FirstWithID(w, value(prog.fn[errors[i].at].functionID))

C4_Witness ==
    /\ Visited
    /\ \E i \in NewIdx :
         /\ errors[i].msg = MsgSameID
         /\ ~ NoRole(errors[i].at)
         /\ funcId2Decl[value(prog.fn[errors[i].at].functionID)] = errors[i].other
    /\ \E f \in Walked : \E id \in prog.fn[f].functionID :
         /\ funcId2Decl[id] # f
         /\ funcId2Decl[id] \in getAllBaseFunctions(prog, f)

\* Two callables agree on function ID, responsible and both message flags.
Agree(fd, bd) ==
    /\ fd.functionID = bd.functionID
    /\ fd.responsible = bd.responsible
    /\ fd.internalMsg = bd.internalMsg
    /\ fd.externalMsg = bd.externalMsg

\* C6: an override and a base it overrides, directly or transitively, that
\* agree on function ID and on the three flags get no error naming the two
\* of them.
C6_AgreeingPairIsSilent ==
    Visited =>
        \A f \in Walked : \A b \in getAllBaseFunctions(prog, f) :
            Agree(prog.fn[f], prog.fn[b])
            => \A i \in NewIdx : {errors[i].at, errors[i].other} # {f, b}

C6_Witness ==
    /\ Visited
    /\ \E f \in Walked : \E b \in getAllBaseFunctions(prog, f) :
         /\ b \notin prog.fn[f].baseFunctions
         /\ has_value(prog.fn[f].functionID)
         /\ Agree(prog.fn[f], prog.fn[b])
         /\ \E g \in prog.fn[f].baseFunctions : Agree(prog.fn[f], prog.fn[g])

----------------------------------------------------------------------------
(* Properties of the node visits *)

\* The messages of the errors the last visit reported, in order.
NewMsgs == [i \in 1 .. (Len(errors) - lastLen) |-> errors[lastLen + i].msg]

NumMsg(m) == Cardinality({i \in NewIdx : errors[i].msg = m})

One(b) == IF b THEN 1 ELSE 0

\* The width of a numeric-like member: integer bits, 1 for a boolean,
\* 8 x length for fixed bytes, the bits of the variant count for an enum.
WidthOf(t) ==
    IF t.category = "Integer" THEN t.n
    ELSE IF t.category = "Bool" THEN 1
    ELSE IF t.category = "FixedBytes" THEN 8 * t.n
    ELSE CHOOSE k \in 1 .. 32 : 2 ^ k >= t.n /\ 2 ^ (k - 1) < t.n

RECURSIVE SumWidths(_)
SumWidths(ms) == IF ms = <<>> THEN 0 ELSE WidthOf(Head(ms)) + SumWidths(Tail(ms))

NumericStructKey ==
    /\ op = "visitMapping"
    /\ node.keyIsUserDefinedTypeName /\ node.keyCategory = "Struct"
    /\ \A i \in DOMAIN node.members :
         node.members[i].category \in {"Integer", "Bool", "FixedBytes", "Enum"}

\* C5: a struct key with numeric-like members only is reported exactly
\* once, with the must-fit error, when its widths sum to more than
\* CellBitLength, and is not reported when they sum to CellBitLength or less.
C5_StructKeyWidth ==
    NumericStructKey =>
        IF SumWidths(node.members) > CellBitLength
        THEN NewMsgs = <<MsgFit>>
        ELSE NewMsgs = <<>>

C5_Witness ==
    /\ NumericStructKey
    /\ SumWidths(node.members) = CellBitLength
    /\ NewMsgs = <<>>

VisitedHook(name) ==
    /\ op = "visitFunctionDefinition"
    /\ prog.fn[node].name = name

\* afterSignatureCheck in its canonical shape, but for the visibility.
CanonicalButVisibility(fd) ==
    /\ fd.parameters = <<"TvmSlice", "TvmCell">>
    /\ fd.returnParameters = <<"TvmSlice">>
    /\ fd.inline
    /\ fd.functionID = {}

\* C7 as stated: an afterSignatureCheck whose only deviation is public
\* visibility gets exactly one error, the one about the visibility.
C7_PublicHookOneError ==
    (VisitedHook("afterSignatureCheck") /\ CanonicalButVisibility(prog.fn[node])
        /\ prog.fn[node].visibility = "public")
    => NewMsgs = <<MsgSigPrivate>>

\* C7 amended: an afterSignatureCheck whose only deviation is public
\* visibility gets two errors, the inline-with-public-visibility error and
\* the hook's visibility error; in general every deviation gets its own
\* error naming the expected format, and the only other errors are those
\* of the rules for every function (function ID, inline with public).
C7_HookErrors ==
    VisitedHook("afterSignatureCheck") =>
        LET fd == prog.fn[node] IN
        /\ NumMsg(MsgSigParams) = One(fd.parameters # <<"TvmSlice", "TvmCell">>)
        /\ NumMsg(MsgSigReturn) = One(fd.returnParameters # <<"TvmSlice">>)
        /\ NumMsg(MsgSigPrivate) = One(fd.visibility # "private")
        /\ NumMsg(MsgSigInline) = One(~ fd.inline)
        /\ NumMsg(MsgInlinePublic) = One(fd.inline /\ fd.visibility \in {"public", "external"})
        /\ \A i \in NewIdx :
             errors[i].msg \in {MsgSigParams, MsgSigReturn, MsgSigPrivate, MsgSigInline,
                                MsgInlinePublic, MsgIDZero, MsgIDPlacement}
        /\ (fd.functionID = {} =>
              \A i \in NewIdx : errors[i].msg \notin {MsgIDZero, MsgIDPlacement})
        /\ (CanonicalButVisibility(fd) /\ fd.visibility = "public"
              => NewMsgs = <<MsgInlinePublic, MsgSigPrivate>>)

C7_Witness ==
    /\ VisitedHook("afterSignatureCheck")
    /\ CanonicalButVisibility(prog.fn[node])
    /\ prog.fn[node].visibility = "public"
    /\ Len(NewMsgs) = 2

\* C8: onCodeUpgrade gets the no-return error exactly when it returns
\* something and the visibility error exactly when it is public, each
\* whatever the other.
C8_UpgradeChecksIndependent ==
    VisitedHook("onCodeUpgrade") =>
        LET fd == prog.fn[node] IN
        /\ NumMsg(MsgNoReturn) = One(fd.returnParameters # <<>>)
        /\ NumMsg(MsgBadVisibility) = One(fd.visibility \in {"public", "external"})

C8_Witness ==
    /\ VisitedHook("onCodeUpgrade")
    /\ prog.fn[node].returnParameters # <<>>
    /\ prog.fn[node].visibility = "public"
    /\ NumMsg(MsgNoReturn) = 1
    /\ NumMsg(MsgBadVisibility) = 1

VisitOps ==
    {"visitVariableDeclaration", "visitMapping", "visitFunctionDefinition",
     "visitIndexRangeAccess", "visitFunctionCall", "visitPragmaDirective",
     "visitMemberAccess", "visitContractDefinition"}

IsPrefix(s, t) == Len(s) <= Len(t) /\ \A i \in 1 .. Len(s) : s[i] = t[i]

\* C9: every step leaves the errors reported so far in place, in order, at
\* the front of the sink, and every visit returns true, whether or not it
\* reported anything.
C9_CollectAll ==
    [][/\ IsPrefix(errors, errors')
       /\ (op' \in VisitOps => ret' = TRUE)]_vars

C9_Witness ==
    /\ op \in VisitOps
    /\ lastLen > 0
    /\ Len(errors) > lastLen
    /\ ret = TRUE

\* C10: a contract's visit sets contractDefinition to it and its endVisit
\* clears it; the registry, the two sets and the errors of a visit name
\* callables of the visited contract's own hierarchy only, whatever was
\* visited before.
C10_ScopedToContract ==
    /\ (Visited =>
          /\ contractDefinition = node
          /\ \A id \in DOMAIN funcId2Decl : funcId2Decl[id] \in Walked
          /\ functions \subseteq Walked
          /\ overridedFunctions \subseteq Walked
          /\ \A i \in NewIdx : errors[i].at \in Walked /\ errors[i].other \in Walked)
    /\ (op \in {"init", "endVisitContractDefinition"} => contractDefinition = nullptr)

C10_Witness ==
    /\ Visited
    /\ lastLen > 0
    /\ NewIdx = {}
    /\ errors[1].msg = MsgSameID
    /\ errors[1].at \notin Walked
    /\ \E f \in Walked : prog.fn[f].functionID = prog.fn[errors[1].at].functionID

====
